---- MODULE Spec2Model ----
(***************************************************************************)
(* A model of youtubedoc/youtube_processor.py: the YoutubeProcessor class. *)
(*                                                                         *)
(* Python values are modelled as follows.  A str is a TLA+ string.  An     *)
(* Optional value is a sequence of length at most one: None is <<>> and a  *)
(* present value v is <<v>>.  A dict is a function from the set of its     *)
(* keys.  A call yields Raise when an exception leaves it, and otherwise    *)
(* its value wrapped as <<v>>.                                             *)
(***************************************************************************)
EXTENDS Integers, Sequences, FiniteSets, TLC

VARIABLES
    pc,                       \* position of the running invocation
    env,                      \* os.environ, as read by os.getenv
    YT_DLP_AVAILABLE,         \* module flag, line 39/42
    PYTUBE_AVAILABLE,         \* module flag, line 48/53
    TRANSCRIPT_API_AVAILABLE, \* module flag, line 28/34
    youtube_api_key,          \* self.youtube_api_key
    query,                    \* the VideoQuery given to process_video
    video_id,                 \* local of process_video (Optional)
    video_info,               \* local of process_video (Optional dict)
    extraction_attempts,      \* local of _extract_video_metadata
    provider_proxy,           \* the proxy option the last metadata provider got
    proxy_config,             \* local of _extract_transcript._extract
    ctor_raises,              \* which proxy constructors raised in this call
    transcript_list,          \* what ytt_api.list returned (Optional)
    selected,                 \* what _find_transcript_by_preference returned
    fetched,                  \* language of the track whose segments were fetched
    formatted,                \* text_formatter.format_transcript's last value
    result,                   \* (text, language) of _extract_transcript
    comments,                 \* local of process_video (Optional list)
    returned,                 \* what process_video returned (Optional)
    raised,                   \* the exception surfaced to the caller (Optional)
    calls                     \* the external calls made, in order

vars == <<pc, env, YT_DLP_AVAILABLE, PYTUBE_AVAILABLE, TRANSCRIPT_API_AVAILABLE,
          youtube_api_key, query, video_id, video_info, extraction_attempts,
          provider_proxy, proxy_config, ctor_raises, transcript_list, selected,
          fetched, formatted,
          result, comments, returned, raised, calls>>

----------------------------------------------------------------------------
(* Python values *)

None == <<>>

Some(v) == <<v>>

\* F(x), with x evaluated once: Python evaluates an argument before the call
Eager(F(_), x) == CHOOSE r \in {F(v) : v \in {x}} : TRUE

\* bool(x) of an Optional[str]: None and "" are falsy
Truthy(o) == o # None /\ o[1] # ""

\* Python's `a or b` on Optional[str] operands
PyOr(a, b) == Eager(LAMBDA v : IF Truthy(v) THEN v ELSE b, a)

\* str.lower(), on the letters the model's strings use
LowerChar(c) ==
    CASE c = "T" -> "t"
      [] c = "R" -> "r"
      [] c = "U" -> "u"
      [] c = "E" -> "e"
      [] c = "F" -> "f"
      [] c = "A" -> "a"
      [] c = "L" -> "l"
      [] c = "S" -> "s"
      [] OTHER -> c

RECURSIVE LowerFrom(_, _)
LowerFrom(s, i) ==
    IF i > Len(s) THEN ""
    ELSE LowerChar(SubSeq(s, i, i)) \o LowerFrom(s, i + 1)

Lower(s) == LowerFrom(s, 1)

\* str.replace(old, ""), left to right, non-overlapping
RECURSIVE RemoveFrom(_, _, _)
RemoveFrom(s, old, i) ==
    IF i + Len(old) - 1 > Len(s) THEN SubSeq(s, i, Len(s))
    ELSE IF SubSeq(s, i, i + Len(old) - 1) = old
         THEN RemoveFrom(s, old, i + Len(old))
         ELSE SubSeq(s, i, i) \o RemoveFrom(s, old, i + 1)

Remove(s, old) == Eager(LAMBDA v : RemoveFrom(v, old, 1), s)

\* str.strip(), for the blank the model's strings use
RECURSIVE FirstNonBlank(_, _)
FirstNonBlank(s, i) ==
    IF i > Len(s) THEN i
    ELSE IF SubSeq(s, i, i) = " " THEN FirstNonBlank(s, i + 1) ELSE i

RECURSIVE LastNonBlank(_, _)
LastNonBlank(s, j) ==
    IF j < 1 THEN j
    ELSE IF SubSeq(s, j, j) = " " THEN LastNonBlank(s, j - 1) ELSE j

Strip(s) == SubSeq(s, FirstNonBlank(s, 1), LastNonBlank(s, Len(s)))

\* str.split(","): the pieces between commas, empty pieces kept
RECURSIVE SplitFrom(_, _, _)
SplitFrom(s, i, start) ==
    IF i > Len(s) THEN <<SubSeq(s, start, Len(s))>>
    ELSE IF SubSeq(s, i, i) = ","
         THEN <<SubSeq(s, start, i - 1)>> \o SplitFrom(s, i + 1, i + 1)
         ELSE SplitFrom(s, i + 1, start)

SplitComma(s) == SplitFrom(s, 1, 1)

\* [loc.strip() for loc in pieces if loc.strip()]
RECURSIVE StripNonEmpty(_)
StripNonEmpty(pieces) ==
    IF pieces = <<>> THEN <<>>
    ELSE IF Strip(Head(pieces)) # ""
         THEN <<Strip(Head(pieces))>> \o StripNonEmpty(Tail(pieces))
         ELSE StripNonEmpty(Tail(pieces))

\* the result of a call that raised
Raise == <<"raise", "Exception">>

----------------------------------------------------------------------------
(* The environment *)

EnvNames == {"USE_PROXY", "PROXY_USERNAME", "PROXY_PASSWORD", "PROXY_URL",
             "YTA_WEBSHARE_USERNAME", "YTA_WEBSHARE_PASSWORD",
             "YTA_WEBSHARE_LOCATIONS", "YTA_HTTP_PROXY", "HTTP_PROXY",
             "YTA_HTTPS_PROXY", "HTTPS_PROXY"}

\* os.getenv(name) and os.getenv(name, default)
getenv(e, name) == e[name]

getenv_default(e, name, default) == IF e[name] = None THEN default ELSE e[name][1]

\* the environments explored: every variable unset, empty or set
Envs ==
    [USE_PROXY              : {None, Some("True"), Some("false")},
     PROXY_USERNAME         : {None, Some(""), Some("user")},
     PROXY_PASSWORD         : {None, Some("pw")},
     PROXY_URL              : {None, Some(""), Some("https://px.example:7000"),
                               Some("px.example:7000")},
     YTA_WEBSHARE_USERNAME  : {None, Some(""), Some("wsuser")},
     YTA_WEBSHARE_PASSWORD  : {None, Some("wspw")},
     YTA_WEBSHARE_LOCATIONS : {None, Some("us, ,de")},
     YTA_HTTP_PROXY         : {None, Some("http://yta-http:1")},
     HTTP_PROXY             : {None, Some("http://http:2")},
     YTA_HTTPS_PROXY        : {None, Some("http://yta-https:3")},
     HTTPS_PROXY            : {None, Some("http://https:4")}]

NoEnv == [n \in EnvNames |-> None]

\* a few environments, one per proxy tier, for the specifications that are
\* not about the proxy
SomeEnvs ==
    {NoEnv,
     [NoEnv EXCEPT !["USE_PROXY"] = Some("True"),
                   !["PROXY_USERNAME"] = Some("user"),
                   !["PROXY_PASSWORD"] = Some("pw")],
     [NoEnv EXCEPT !["YTA_WEBSHARE_USERNAME"] = Some("wsuser"),
                   !["YTA_WEBSHARE_PASSWORD"] = Some("wspw")],
     [NoEnv EXCEPT !["HTTPS_PROXY"] = Some("http://https:4")]}

----------------------------------------------------------------------------
(* Proxy resolution *)

\* _get_decodo_proxy_url
_get_decodo_proxy_url(e) ==
    IF Lower(getenv_default(e, "USE_PROXY", "")) = "true"
    THEN LET username   == getenv(e, "PROXY_USERNAME")
             password   == getenv(e, "PROXY_PASSWORD")
             proxy_base == getenv_default(e, "PROXY_URL", "http://gate.decodo.com:10001")
         IN  IF Truthy(username) /\ Truthy(password)
             THEN LET base_url == Remove(Remove(proxy_base, "http://"), "https://")
                  IN  Some("http://" \o username[1] \o ":" \o password[1] \o "@" \o base_url)
             ELSE Some(proxy_base)
    ELSE None

\* the constructors of youtube_transcript_api.proxies
GenericProxyConfig(http_url, https_url) ==
    [class |-> "GenericProxyConfig", http_url |-> http_url, https_url |-> https_url]

WebshareProxyConfig(proxy_username, proxy_password, filter_ip_locations) ==
    [class |-> "WebshareProxyConfig", proxy_username |-> proxy_username,
     proxy_password |-> proxy_password, filter_ip_locations |-> filter_ip_locations]

\* the locations filter of the Webshare tier (lines 180-185)
ParseLocations(e) ==
    LET locations_raw == getenv_default(e, "YTA_WEBSHARE_LOCATIONS", "")
    IN  IF locations_raw # "" THEN Some(StripNonEmpty(SplitComma(locations_raw)))
        ELSE None

\* _build_proxy_config, were the Webshare tier tried before the Decodo tier
_build_proxy_config_mut_order(e, lib, fails) ==
    LET decodo_proxy      == _get_decodo_proxy_url(e)
        webshare_username == getenv(e, "YTA_WEBSHARE_USERNAME")
        webshare_password == getenv(e, "YTA_WEBSHARE_PASSWORD")
        http_proxy  == PyOr(getenv(e, "YTA_HTTP_PROXY"), getenv(e, "HTTP_PROXY"))
        https_proxy == PyOr(getenv(e, "YTA_HTTPS_PROXY"), getenv(e, "HTTPS_PROXY"))
    IN  IF lib /\ Truthy(webshare_username) /\ Truthy(webshare_password) /\ ~fails[2]
        THEN Some(WebshareProxyConfig(webshare_username[1], webshare_password[1],
                                      ParseLocations(e)))
        ELSE IF Truthy(decodo_proxy) /\ lib /\ ~fails[1]
        THEN Some(GenericProxyConfig(decodo_proxy, decodo_proxy))
        ELSE IF lib /\ (Truthy(http_proxy) \/ Truthy(https_proxy)) /\ ~fails[3]
        THEN Some(GenericProxyConfig(http_proxy, https_proxy))
        ELSE None

\* _build_proxy_config.  lib says whether the proxy classes were imported;
\* fails[i] says whether the constructor call of tier i raises.
_build_proxy_config(e, lib, fails) ==
    LET decodo_proxy      == _get_decodo_proxy_url(e)
        webshare_username == getenv(e, "YTA_WEBSHARE_USERNAME")
        webshare_password == getenv(e, "YTA_WEBSHARE_PASSWORD")
        http_proxy  == PyOr(getenv(e, "YTA_HTTP_PROXY"), getenv(e, "HTTP_PROXY"))
        https_proxy == PyOr(getenv(e, "YTA_HTTPS_PROXY"), getenv(e, "HTTPS_PROXY"))
    IN  IF Truthy(decodo_proxy) /\ lib /\ ~fails[1]
        THEN Some(GenericProxyConfig(decodo_proxy, decodo_proxy))
        ELSE IF lib /\ Truthy(webshare_username) /\ Truthy(webshare_password) /\ ~fails[2]
        THEN Some(WebshareProxyConfig(webshare_username[1], webshare_password[1],
                                      ParseLocations(e)))
        ELSE IF lib /\ (Truthy(http_proxy) \/ Truthy(https_proxy)) /\ ~fails[3]
        THEN Some(GenericProxyConfig(http_proxy, https_proxy))
        ELSE None

----------------------------------------------------------------------------
(* The query *)

\* VideoQuery.extract_video_id: the identifier of a well-formed url, or a
\* ValueError.  The urls are the ones the model's queries use.
extract_video_id(url) ==
    CASE url = "https://youtu.be/abc123def45" -> Some("abc123def45")
      [] url = "https://www.youtube.com/watch?v=XYZ_-789xyz" -> Some("XYZ_-789xyz")
      [] OTHER -> Raise

Urls == {"https://youtu.be/abc123def45",
         "https://www.youtube.com/watch?v=XYZ_-789xyz",
         "not a video url"}

WellFormedUrls == {u \in Urls : extract_video_id(u) # Raise}

----------------------------------------------------------------------------
(* Metadata providers *)

\* dict.get(key, default) and dict.get(key): a key that is present with a
\* None value yields None, not the default
Get(d, key, default) == IF key \in DOMAIN d THEN d[key] ELSE default

\* datetime.strptime(s, '%Y%m%d').date() on the strings the model uses: an
\* eight-digit string of a calendar day parses, anything else raises
DigitVal(c) ==
    CASE c = "0" -> 0 [] c = "1" -> 1 [] c = "2" -> 2 [] c = "3" -> 3
      [] c = "4" -> 4 [] c = "5" -> 5 [] c = "6" -> 6 [] c = "7" -> 7
      [] c = "8" -> 8 [] c = "9" -> 9 [] OTHER -> -1

AllDigits(s) == \A i \in 1..Len(s) : DigitVal(SubSeq(s, i, i)) >= 0

\* the number that the first n digits of s write
RECURSIVE IntOfFirst(_, _)
IntOfFirst(s, n) ==
    IF n = 0 THEN 0
    ELSE 10 * IntOfFirst(s, n - 1) + DigitVal(SubSeq(s, n, n))

IntOf(s) == IntOfFirst(s, Len(s))

DaysInMonth(y, m) ==
    IF m \in {4, 6, 9, 11} THEN 30
    ELSE IF m = 2
         THEN IF (y % 4 = 0 /\ y % 100 # 0) \/ y % 400 = 0 THEN 29 ELSE 28
         ELSE 31

strptime_date(s) ==
    IF Len(s) = 8 /\ AllDigits(s)
    THEN LET y == IntOf(SubSeq(s, 1, 4))
             m == IntOf(SubSeq(s, 5, 6))
             d == IntOf(SubSeq(s, 7, 8))
         IN  IF y >= 1 /\ m \in 1..12 /\ d >= 1 /\ d <= DaysInMonth(y, m)
             THEN Some([year |-> y, month |-> m, day |-> d])
             ELSE Raise
    ELSE Raise

\* _extract_metadata_with_ytdlp._extract, given what ydl.extract_info did:
\* raised, returned None, or returned the dict info
_extract_metadata_with_ytdlp(vid, url, info) ==
    IF info = Raise \/ info = None THEN Raise
    ELSE LET upload_date == Get(info[1], "upload_date", None)
             parsed == IF Truthy(upload_date) THEN strptime_date(upload_date[1])
                       ELSE upload_date
         IN  IF parsed = Raise THEN Raise
             ELSE Some(
                  [title         |-> Get(info[1], "title", Some("Unknown Title")),
                   description   |-> Get(info[1], "description", Some("")),
                   duration      |-> Get(info[1], "duration", Some(0)),
                   view_count    |-> Get(info[1], "view_count", None),
                   like_count    |-> Get(info[1], "like_count", None),
                   channel       |-> Get(info[1], "uploader", Some("Unknown Channel")),
                   channel_id    |-> Get(info[1], "uploader_id", None),
                   upload_date   |-> parsed,
                   url           |-> Some(url),
                   video_id      |-> Some(vid),
                   thumbnail_url |-> Get(info[1], "thumbnail", None),
                   categories    |-> Get(info[1], "categories", Some(<<>>)),
                   tags          |-> Get(info[1], "tags", Some(<<>>))])

\* `x or default` on an Optional[int]
PyOrInt(o, default) == IF o # None /\ o[1] # 0 THEN o ELSE default

\* _extract_metadata_with_pytube._extract, given what YouTube(url) and its
\* properties did: raised, or gave the object yt
_extract_metadata_with_pytube(url, yt) ==
    IF yt = Raise THEN Raise
    ELSE Some(
         [title         |-> PyOr(yt[1].title, Some("Unknown Title")),
          description   |-> PyOr(yt[1].description, Some("")),
          duration      |-> PyOrInt(yt[1].length, Some(0)),
          view_count    |-> yt[1].views,
          channel       |-> PyOr(yt[1].author, Some("Unknown Channel")),
          upload_date   |-> yt[1].publish_date,
          url           |-> Some(url),
          video_id      |-> Some(yt[1].video_id),
          thumbnail_url |-> Some(yt[1].thumbnail_url),
          categories    |-> Some(<<>>),
          tags          |-> Some(yt[1].keywords)])

\* _build_minimal_metadata, were the identifier left out of the title
_build_minimal_metadata_mut_title(vid, url) ==
    [title         |-> Some("Video"),
     description   |-> Some("Description not available"),
     duration      |-> Some(0),
     view_count    |-> None,
     like_count    |-> None,
     channel       |-> Some("Unknown Channel"),
     channel_id    |-> None,
     upload_date   |-> None,
     url           |-> Some(url),
     video_id      |-> Some(vid),
     thumbnail_url |-> Some("https://img.youtube.com/vi/" \o vid \o "/maxresdefault.jpg"),
     categories    |-> Some(<<>>),
     tags          |-> Some(<<>>)]

\* _build_minimal_metadata
_build_minimal_metadata(vid, url) ==
    [title         |-> Some("Video " \o vid),
     description   |-> Some("Description not available"),
     duration      |-> Some(0),
     view_count    |-> None,
     like_count    |-> None,
     channel       |-> Some("Unknown Channel"),
     channel_id    |-> None,
     upload_date   |-> None,
     url           |-> Some(url),
     video_id      |-> Some(vid),
     thumbnail_url |-> Some("https://img.youtube.com/vi/" \o vid \o "/maxresdefault.jpg"),
     categories    |-> Some(<<>>),
     tags          |-> Some(<<>>)]

----------------------------------------------------------------------------
(* Transcripts *)

\* a transcript track, as ytt_api.list enumerates it
Track(language_code, is_generated) ==
    [language_code |-> language_code, is_generated |-> is_generated]

\* TextFormatter.format_transcript: the segments' texts, one per line
RECURSIVE format_transcript(_)
format_transcript(transcript_data) ==
    IF transcript_data = <<>> THEN ""
    ELSE IF Len(transcript_data) = 1 THEN Head(transcript_data)
    ELSE Head(transcript_data) \o "\n" \o format_transcript(Tail(transcript_data))

\* text[:n], n of either sign
SliceTo(text, n) ==
    IF n >= 0
    THEN SubSeq(text, 1, IF n < Len(text) THEN n ELSE Len(text))
    ELSE SubSeq(text, 1, IF Len(text) + n > 0 THEN Len(text) + n ELSE 0)

TruncationMarker == "\n[Transcript truncated...]"

\* the length limit, were the marker's first character counted in max_length
ApplyLengthLimit_mut_counted(transcript_text, max_length) ==
    IF max_length # None /\ max_length[1] # 0 /\ Len(transcript_text) > max_length[1]
    THEN SliceTo(transcript_text, max_length[1] - 1) \o TruncationMarker
    ELSE transcript_text

\* the length limit of lines 512-513 and 556-557; max_length is Optional[int]
ApplyLengthLimit(transcript_text, max_length) ==
    IF max_length # None /\ max_length[1] # 0 /\ Len(transcript_text) > max_length[1]
    THEN SliceTo(transcript_text, max_length[1]) \o TruncationMarker
    ELSE transcript_text

\* categorize_transcripts: one pass over the list, in enumeration order
RECURSIVE categorize_transcripts(_, _, _)
categorize_transcripts(list, preferred_language, acc) ==
    IF list = <<>> THEN acc
    ELSE LET transcript == Head(list)
             next ==
                 IF transcript.language_code = preferred_language
                 THEN IF ~transcript.is_generated
                      THEN [acc EXCEPT !.preferred_manual = Some(transcript)]
                      ELSE [acc EXCEPT !.preferred_auto = Some(transcript)]
                 ELSE IF ~transcript.is_generated
                      THEN [acc EXCEPT !.manual_transcripts = Append(@, transcript)]
                      ELSE [acc EXCEPT !.auto_transcripts = Append(@, transcript)]
         IN  categorize_transcripts(Tail(list), preferred_language, next)

\* _find_transcript_by_preference, were the auto-generated track preferred
_find_transcript_by_preference_mut_auto_first(list, preferred_language) ==
    LET c == categorize_transcripts(list, preferred_language,
                 [preferred_manual |-> None, preferred_auto |-> None,
                  manual_transcripts |-> <<>>, auto_transcripts |-> <<>>])
    IN  IF c.preferred_auto # None
        THEN <<c.preferred_auto, Some(preferred_language)>>
        ELSE IF c.preferred_manual # None
        THEN <<c.preferred_manual, Some(preferred_language)>>
        ELSE IF c.manual_transcripts # <<>>
        THEN <<Some(c.manual_transcripts[1]), Some(c.manual_transcripts[1].language_code)>>
        ELSE IF c.auto_transcripts # <<>>
        THEN <<Some(c.auto_transcripts[1]), Some(c.auto_transcripts[1].language_code)>>
        ELSE <<None, None>>

\* _find_transcript_by_preference, were the preferred language reported for
\* every selected track
_find_transcript_by_preference_mut_language(list, preferred_language) ==
    LET c == categorize_transcripts(list, preferred_language,
                 [preferred_manual |-> None, preferred_auto |-> None,
                  manual_transcripts |-> <<>>, auto_transcripts |-> <<>>])
    IN  IF c.preferred_manual # None
        THEN <<c.preferred_manual, Some(preferred_language)>>
        ELSE IF c.preferred_auto # None
        THEN <<c.preferred_auto, Some(preferred_language)>>
        ELSE IF c.manual_transcripts # <<>>
        THEN <<Some(c.manual_transcripts[1]), Some(preferred_language)>>
        ELSE IF c.auto_transcripts # <<>>
        THEN <<Some(c.auto_transcripts[1]), Some(preferred_language)>>
        ELSE <<None, None>>

\* _find_transcript_by_preference: (transcript, language), both Optional
_find_transcript_by_preference(list, preferred_language) ==
    LET c == categorize_transcripts(list, preferred_language,
                 [preferred_manual |-> None, preferred_auto |-> None,
                  manual_transcripts |-> <<>>, auto_transcripts |-> <<>>])
    IN  IF c.preferred_manual # None
        THEN <<c.preferred_manual, Some(preferred_language)>>
        ELSE IF c.preferred_auto # None
        THEN <<c.preferred_auto, Some(preferred_language)>>
        ELSE IF c.manual_transcripts # <<>>
        THEN <<Some(c.manual_transcripts[1]), Some(c.manual_transcripts[1].language_code)>>
        ELSE IF c.auto_transcripts # <<>>
        THEN <<Some(c.auto_transcripts[1]), Some(c.auto_transcripts[1].language_code)>>
        ELSE <<None, None>>

----------------------------------------------------------------------------
(* Comments *)

max_comments == 20

placeholder_comments ==
    <<"Great video! Very informative.",
      "Thanks for sharing this content.",
      "This helped me understand the topic better.",
      "Looking forward to more content like this.",
      "Well explained and easy to follow.">>

\* _extract_comments, were an empty list returned without a credential
_extract_comments_mut_empty(api_key) ==
    IF ~Truthy(api_key) THEN Some(<<>>)
    ELSE Some(placeholder_comments)

\* _extract_comments, with the default max_comments
_extract_comments(api_key) ==
    IF ~Truthy(api_key) THEN None
    ELSE Some(SubSeq(placeholder_comments, 1,
                     IF max_comments < Len(placeholder_comments)
                     THEN max_comments ELSE Len(placeholder_comments)))

----------------------------------------------------------------------------
(* What the libraries may return *)

InfoKeys == {"title", "description", "duration", "view_count", "like_count",
             "uploader", "uploader_id", "upload_date", "thumbnail",
             "categories", "tags"}

StringKeys == {"title", "description", "uploader", "thumbnail"}

InfoValue(k) ==
    CASE k = "title"       -> Some("A title")
      [] k = "description" -> Some("A description")
      [] k = "duration"    -> Some(212)
      [] k = "view_count"  -> Some(1000)
      [] k = "like_count"  -> Some(10)
      [] k = "uploader"    -> Some("A channel")
      [] k = "uploader_id" -> Some("@channel")
      [] k = "thumbnail"   -> Some("https://i.ytimg.com/vi/x/hq.jpg")
      [] k = "categories"  -> Some(<<"Music">>)
      [] k = "tags"        -> Some(<<"tag">>)

UploadDates == {Some(""), Some("20230615"), Some("20240229"), Some("20230229"),
                Some("2023")}

\* a key that the dict does not hold
Missing == <<"missing", "key">>

\* the info dict in which each key is "missing", "null" or "set", as st says,
\* and upload_date is ud (Missing, None or a string)
InfoDict(st, ud) ==
    [k \in {k \in InfoKeys :
              IF k = "upload_date" THEN ud # Missing ELSE st[k] # "missing"} |->
        IF k = "upload_date" THEN ud
        ELSE IF st[k] = "null" THEN None ELSE InfoValue(k)]

\* key states: the string keys vary one by one, the other keys together
KeyStates ==
    {[k \in InfoKeys |-> IF k \in StringKeys THEN s[k] ELSE r] :
        s \in [StringKeys -> {"missing", "null", "set"}],
        r \in {"missing", "null", "set"}}

\* what ydl.extract_info may do: raise, return None, return a dict
YtdlpOutcomes ==
    {Raise, None} \cup
    {Some(InfoDict(st, ud)) : st \in KeyStates, ud \in {Missing, None} \cup UploadDates}

SomeYtdlpOutcomes ==
    {Raise, None,
     Some(InfoDict([k \in InfoKeys |-> "missing"], Missing)),
     Some(InfoDict([k \in InfoKeys |-> "set"], Some("20230615")))}

\* what pytube's YouTube(url) may do: raise, or give an object with these
\* properties
PytubeObjects(vid) ==
    [title         : {None, Some(""), Some("A title")},
     description   : {None, Some("A description")},
     length        : {None, Some(0), Some(212)},
     views         : {None, Some(1000)},
     author        : {None, Some("A channel")},
     publish_date  : {None, Some([year |-> 2023, month |-> 6, day |-> 15])},
     video_id      : {vid},
     thumbnail_url : {"https://i.ytimg.com/vi/" \o vid \o "/sddefault.jpg"},
     keywords      : {<<>>, <<"tag">>}]

PytubeOutcomes(vid) == {Raise} \cup {Some(yt) : yt \in PytubeObjects(vid)}

SomePytubeOutcomes(vid) ==
    {Raise,
     Some([title |-> Some("A title"), description |-> None, length |-> Some(212),
           views |-> Some(1000), author |-> Some("A channel"), publish_date |-> None,
           video_id |-> vid,
           thumbnail_url |-> "https://i.ytimg.com/vi/" \o vid \o "/sddefault.jpg",
           keywords |-> <<"tag">>])}

Languages == {"en", "fr", "de"}

PreferredLanguages == {"en", "fr"}

MaxTracks == 3

MaxSegments == 2

MaxLen == 3

SeqsUpTo(S, n) == UNION {[1..k -> S] : k \in 0..n}

Tracks == {Track(l, g) : l \in Languages, g \in BOOLEAN}

\* what ytt_api.list may do: raise, or enumerate tracks
ListOutcomes == {Raise} \cup {Some(list) : list \in SeqsUpTo(Tracks, MaxTracks)}

SomeListOutcomes ==
    {Raise, Some(<<>>), Some(<<Track("fr", FALSE)>>),
     Some(<<Track("en", TRUE), Track("en", FALSE)>>)}

\* what a fetch may do: raise, or give the segments' texts
FetchOutcomes == {Raise} \cup {Some(d) : d \in SeqsUpTo({"a", "bc"}, MaxSegments)}

SomeFetchOutcomes == {Raise, Some(<<>>), Some(<<"a", "bc">>)}

\* max_transcript_length: unset, or an int
MaxLengths == {None} \cup {Some(n) : n \in -1..MaxLen}

\* which of the three proxy constructors raise when called
CtorOutcomes == [1..3 -> BOOLEAN]

SomeCtorOutcomes == {[i \in 1..3 |-> FALSE], [i \in 1..3 |-> TRUE]}

----------------------------------------------------------------------------
(* process_video: identifier *)

\* ProcessVideo, were the ValueError swallowed and the work carried on
ProcessVideo_mut_swallow ==
    /\ pc = "idle"
    /\ LET r == extract_video_id(query.url)
       IN  /\ video_id' = (IF r = Raise THEN Some("") ELSE r)
           /\ pc' = "metadata"
           /\ UNCHANGED raised
    /\ UNCHANGED <<env, YT_DLP_AVAILABLE, PYTUBE_AVAILABLE, TRANSCRIPT_API_AVAILABLE,
                   youtube_api_key, query, video_info, extraction_attempts,
                   provider_proxy, proxy_config, ctor_raises, transcript_list,
                   selected, fetched, formatted, result, comments, returned, calls>>

\* lines 231-238: the identifier, or the ValueError re-raised to the caller
ProcessVideo ==
    /\ pc = "idle"
    /\ LET r == extract_video_id(query.url)
       IN  IF r = Raise
           THEN /\ raised' = Some("ValueError")
                /\ pc' = "raised"
                /\ UNCHANGED video_id
           ELSE /\ video_id' = r
                /\ pc' = "metadata"
                /\ UNCHANGED raised
    /\ UNCHANGED <<env, YT_DLP_AVAILABLE, PYTUBE_AVAILABLE, TRANSCRIPT_API_AVAILABLE,
                   youtube_api_key, query, video_info, extraction_attempts,
                   provider_proxy, proxy_config, ctor_raises, transcript_list,
                   selected, fetched, formatted, result, comments, returned, calls>>

----------------------------------------------------------------------------
(* _extract_video_metadata *)

\* the proxy option of yt-dlp, lines 318-320 and 330
YtdlpProxy(e) ==
    LET http_proxy ==
            PyOr(PyOr(PyOr(PyOr(_get_decodo_proxy_url(e), getenv(e, "YTA_HTTPS_PROXY")),
                           getenv(e, "HTTPS_PROXY")),
                      getenv(e, "YTA_HTTP_PROXY")),
                 getenv(e, "HTTP_PROXY"))
    IN  IF Truthy(http_proxy) THEN Some([provider |-> "yt-dlp", proxy |-> http_proxy[1]])
        ELSE None

\* the proxies of pytube, lines 372-384
PytubeProxy(e) ==
    LET decodo_proxy == _get_decodo_proxy_url(e)
        http_proxy  == PyOr(PyOr(decodo_proxy, getenv(e, "YTA_HTTP_PROXY")),
                            getenv(e, "HTTP_PROXY"))
        https_proxy == PyOr(PyOr(decodo_proxy, getenv(e, "YTA_HTTPS_PROXY")),
                            getenv(e, "HTTPS_PROXY"))
        keys == {k \in {"http", "https"} :
                    IF k = "http" THEN Truthy(http_proxy) ELSE Truthy(https_proxy)}
    IN  IF keys # {}
        THEN Some([provider |-> "pytube",
                   proxies  |-> [k \in keys |-> IF k = "http" THEN http_proxy[1]
                                                ELSE https_proxy[1]]])
        ELSE None

MetaUnchanged ==
    UNCHANGED <<env, YT_DLP_AVAILABLE, PYTUBE_AVAILABLE, TRANSCRIPT_API_AVAILABLE,
                youtube_api_key, query, video_id, proxy_config, ctor_raises,
                transcript_list, selected, fetched, formatted, result, comments,
                returned, raised>>

\* lines 279-281, 316-334: yt-dlp is available and its call is handed to the executor
YtdlpStart ==
    /\ pc = "metadata"
    /\ YT_DLP_AVAILABLE
    /\ provider_proxy' = YtdlpProxy(env)
    /\ calls' = Append(calls, "yt_dlp.extract_info")
    /\ pc' = "ytdlp"
    /\ UNCHANGED <<video_info, extraction_attempts>>
    /\ MetaUnchanged

\* line 279: yt-dlp is not available
YtdlpSkip ==
    /\ pc = "metadata"
    /\ ~YT_DLP_AVAILABLE
    /\ pc' = "metadata_pytube"
    /\ UNCHANGED <<video_info, extraction_attempts, provider_proxy, calls>>
    /\ MetaUnchanged

\* YtdlpFinish, were the next provider tried after a success too
YtdlpFinish_mut_continue(outcomes) ==
    /\ pc = "ytdlp"
    /\ \E info \in outcomes :
          LET metadata == _extract_metadata_with_ytdlp(video_id[1], query.url, info)
          IN  IF metadata = Raise
              THEN /\ extraction_attempts' = Append(extraction_attempts, "yt-dlp")
                   /\ UNCHANGED video_info
              ELSE /\ video_info' = metadata
                   /\ UNCHANGED extraction_attempts
    /\ pc' = "metadata_pytube"
    /\ UNCHANGED <<provider_proxy, calls>>
    /\ MetaUnchanged

\* YtdlpFinish, were the provider's exception not caught
YtdlpFinish_mut_propagate(outcomes) ==
    /\ pc = "ytdlp"
    /\ \E info \in outcomes :
          LET metadata == _extract_metadata_with_ytdlp(video_id[1], query.url, info)
          IN  IF metadata = Raise
              THEN /\ raised' = Some("Exception")
                   /\ pc' = "raised"
                   /\ UNCHANGED video_info
              ELSE /\ video_info' = metadata
                   /\ pc' = "transcript"
                   /\ UNCHANGED raised
    /\ UNCHANGED <<env, YT_DLP_AVAILABLE, PYTUBE_AVAILABLE, TRANSCRIPT_API_AVAILABLE,
                   youtube_api_key, query, video_id, extraction_attempts,
                   provider_proxy, proxy_config, ctor_raises, transcript_list,
                   selected, fetched, formatted, result, comments, returned, calls>>

\* lines 281-286: the call ends, with the metadata or with an exception
YtdlpFinish(outcomes) ==
    /\ pc = "ytdlp"
    /\ \E info \in outcomes :
          LET metadata == _extract_metadata_with_ytdlp(video_id[1], query.url, info)
          IN  IF metadata = Raise
              THEN /\ extraction_attempts' = Append(extraction_attempts, "yt-dlp")
                   /\ pc' = "metadata_pytube"
                   /\ UNCHANGED video_info
              ELSE /\ video_info' = metadata
                   /\ pc' = "transcript"
                   /\ UNCHANGED extraction_attempts
    /\ UNCHANGED <<provider_proxy, calls>>
    /\ MetaUnchanged

\* lines 289-291, 370-384: pytube is available and its call is handed to the executor
PytubeStart ==
    /\ pc = "metadata_pytube"
    /\ PYTUBE_AVAILABLE
    /\ provider_proxy' = PytubeProxy(env)
    /\ calls' = Append(calls, "pytube.YouTube")
    /\ pc' = "pytube"
    /\ UNCHANGED <<video_info, extraction_attempts>>
    /\ MetaUnchanged

\* line 289: pytube is not available
PytubeSkip ==
    /\ pc = "metadata_pytube"
    /\ ~PYTUBE_AVAILABLE
    /\ pc' = "metadata_minimal"
    /\ UNCHANGED <<video_info, extraction_attempts, provider_proxy, calls>>
    /\ MetaUnchanged

\* lines 291-296: the call ends, with the metadata or with an exception
PytubeFinish(outcomes) ==
    /\ pc = "pytube"
    /\ \E yt \in outcomes :
          LET metadata == _extract_metadata_with_pytube(query.url, yt)
          IN  IF metadata = Raise
              THEN /\ extraction_attempts' = Append(extraction_attempts, "pytube")
                   /\ pc' = "metadata_minimal"
                   /\ UNCHANGED video_info
              ELSE /\ video_info' = metadata
                   /\ pc' = "transcript"
                   /\ UNCHANGED extraction_attempts
    /\ UNCHANGED <<provider_proxy, calls>>
    /\ MetaUnchanged

\* lines 298-300: no provider gave the metadata
MinimalMetadata ==
    /\ pc = "metadata_minimal"
    /\ video_info' = Some(_build_minimal_metadata(video_id[1], query.url))
    /\ pc' = "transcript"
    /\ UNCHANGED <<extraction_attempts, provider_proxy, calls>>
    /\ MetaUnchanged

----------------------------------------------------------------------------
(* _extract_transcript *)

TranscriptUnchanged ==
    UNCHANGED <<env, YT_DLP_AVAILABLE, PYTUBE_AVAILABLE, TRANSCRIPT_API_AVAILABLE,
                youtube_api_key, query, video_id, video_info, extraction_attempts,
                provider_proxy, comments, returned, raised>>

\* lines 451-453: the transcript library is absent
TranscriptUnavailable ==
    /\ pc = "transcript"
    /\ ~TRANSCRIPT_API_AVAILABLE
    /\ result' = <<None, None>>
    /\ pc' = "comments"
    /\ UNCHANGED <<proxy_config, ctor_raises, transcript_list, selected, fetched,
                   formatted, calls>>
    /\ TranscriptUnchanged

\* lines 455-481: _extract is handed to the executor
TranscriptStart ==
    /\ pc = "transcript"
    /\ TRANSCRIPT_API_AVAILABLE
    /\ pc' = "t_proxy"
    /\ UNCHANGED <<proxy_config, ctor_raises, transcript_list, selected, fetched,
                   formatted, result, calls>>
    /\ TranscriptUnchanged

\* lines 460-461: the proxy configuration and the client; an exception of the
\* client's constructor ends _extract at line 474
BuildProxy(ctor_outcomes) ==
    /\ pc = "t_proxy"
    /\ \E fails \in ctor_outcomes :
          /\ proxy_config' = _build_proxy_config(env, TRANSCRIPT_API_AVAILABLE, fails)
          /\ ctor_raises' = Some(fails)
    /\ \E client_raises \in BOOLEAN :
          IF client_raises
          THEN /\ result' = <<None, None>>
               /\ pc' = "t_return"
          ELSE /\ pc' = "t_direct"
               /\ UNCHANGED result
    /\ UNCHANGED <<transcript_list, selected, fetched, formatted, calls>>
    /\ TranscriptUnchanged

\* Direct, were a failure of the direct fetch reported instead of falling back
Direct_mut_report(outcomes) ==
    /\ pc = "t_direct"
    /\ calls' = Append(calls, "ytt_api.fetch")
    /\ \E transcript_data \in outcomes :
          IF transcript_data = Raise
          THEN /\ result' = <<None, None>>
               /\ UNCHANGED <<fetched, formatted>>
          ELSE LET transcript_text == format_transcript(transcript_data[1])
               IN  /\ fetched' = Some(query.language)
                   /\ formatted' = Some(transcript_text)
                   /\ result' = <<Some(ApplyLengthLimit(transcript_text,
                                                        query.max_transcript_length)),
                                  Some(query.language)>>
    /\ pc' = "t_return"
    /\ UNCHANGED <<proxy_config, ctor_raises, transcript_list, selected>>
    /\ TranscriptUnchanged

\* _extract_transcript_direct, and line 468 when it raises
Direct(outcomes) ==
    /\ pc = "t_direct"
    /\ calls' = Append(calls, "ytt_api.fetch")
    /\ \E transcript_data \in outcomes :
          IF transcript_data = Raise
          THEN /\ pc' = "t_list"
               /\ UNCHANGED <<fetched, formatted, result>>
          ELSE LET transcript_text == format_transcript(transcript_data[1])
               IN  /\ fetched' = Some(query.language)
                   /\ formatted' = Some(transcript_text)
                   /\ result' = <<Some(ApplyLengthLimit(transcript_text,
                                                        query.max_transcript_length)),
                                  Some(query.language)>>
                   /\ pc' = "t_return"
    /\ UNCHANGED <<proxy_config, ctor_raises, transcript_list, selected>>
    /\ TranscriptUnchanged

\* _extract_transcript_with_fallback, lines 538-549 and 561-563
FallbackList(outcomes) ==
    /\ pc = "t_list"
    /\ calls' = Append(calls, "ytt_api.list")
    /\ \E list \in outcomes :
          IF list = Raise
          THEN /\ result' = <<None, None>>
               /\ pc' = "t_return"
               /\ UNCHANGED <<transcript_list, selected>>
          ELSE LET found == _find_transcript_by_preference(list[1], query.language)
               IN  /\ transcript_list' = list
                   /\ selected' = found
                   /\ IF found[1] = None
                      THEN /\ result' = <<None, None>>
                           /\ pc' = "t_return"
                      ELSE /\ pc' = "t_fetch"
                           /\ UNCHANGED result
    /\ UNCHANGED <<proxy_config, ctor_raises, fetched, formatted>>
    /\ TranscriptUnchanged

\* _extract_transcript_with_fallback, lines 552-563
FallbackFetch(outcomes) ==
    /\ pc = "t_fetch"
    /\ calls' = Append(calls, "transcript.fetch")
    /\ \E transcript_data \in outcomes :
          IF transcript_data = Raise
          THEN /\ result' = <<None, None>>
               /\ UNCHANGED <<fetched, formatted>>
          ELSE LET transcript_text == format_transcript(transcript_data[1])
               IN  /\ fetched' = Some(selected[1][1].language_code)
                   /\ formatted' = Some(transcript_text)
                   /\ result' = <<Some(ApplyLengthLimit(transcript_text,
                                                        query.max_transcript_length)),
                                  selected[2]>>
    /\ pc' = "t_return"
    /\ UNCHANGED <<proxy_config, ctor_raises, transcript_list, selected>>
    /\ TranscriptUnchanged

\* lines 481-488: the executor's result is returned
TranscriptReturn ==
    /\ pc = "t_return"
    /\ pc' = "comments"
    /\ UNCHANGED <<proxy_config, ctor_raises, transcript_list, selected, fetched,
                   formatted, result, calls>>
    /\ TranscriptUnchanged

----------------------------------------------------------------------------
(* process_video: comments and the merge *)

TailUnchanged ==
    UNCHANGED <<env, YT_DLP_AVAILABLE, PYTUBE_AVAILABLE, TRANSCRIPT_API_AVAILABLE,
                youtube_api_key, query, video_id, extraction_attempts,
                provider_proxy, proxy_config, ctor_raises, transcript_list,
                selected, fetched, formatted, result, raised>>

\* line 247, include_comments true
CommentsCall ==
    /\ pc = "comments"
    /\ query.include_comments
    /\ calls' = Append(calls, "_extract_comments")
    /\ comments' = _extract_comments(youtube_api_key)
    /\ pc' = "merge"
    /\ UNCHANGED <<video_info, returned>>
    /\ TailUnchanged

\* line 247, include_comments false
CommentsSkip ==
    /\ pc = "comments"
    /\ ~query.include_comments
    /\ comments' = None
    /\ pc' = "merge"
    /\ UNCHANGED <<video_info, returned, calls>>
    /\ TailUnchanged

\* dict[key] = value
SetItem(d, key, value) ==
    [k \in DOMAIN d \cup {key} |-> IF k = key THEN value ELSE d[k]]

\* lines 249-255
Merge ==
    /\ pc = "merge"
    /\ LET language == result[2]
           info == IF Truthy(language)
                   THEN Some(SetItem(video_info[1], "detected_transcript_language", language))
                   ELSE video_info
       IN  /\ video_info' = info
           /\ returned' = Some(<<info, result[1], comments>>)
    /\ pc' = "done"
    /\ UNCHANGED <<comments, calls>>
    /\ TailUnchanged

----------------------------------------------------------------------------
(* Specifications *)

Queries(urls, languages, lengths) ==
    [url : urls, language : languages, max_transcript_length : lengths,
     include_comments : BOOLEAN]

\* the locals of an invocation that has not started
Fresh ==
    /\ video_id = None
    /\ video_info = None
    /\ extraction_attempts = <<>>
    /\ provider_proxy = None
    /\ proxy_config = None
    /\ ctor_raises = None
    /\ transcript_list = None
    /\ selected = <<None, None>>
    /\ fetched = None
    /\ formatted = None
    /\ result = <<None, None>>
    /\ comments = None
    /\ returned = None
    /\ raised = None
    /\ calls = <<>>

\* process_video, from its call to its return
Init ==
    /\ pc = "idle"
    /\ env \in SomeEnvs
    /\ YT_DLP_AVAILABLE \in BOOLEAN
    /\ PYTUBE_AVAILABLE \in BOOLEAN
    /\ TRANSCRIPT_API_AVAILABLE \in BOOLEAN
    /\ youtube_api_key \in {None, Some(""), Some("key")}
    /\ query \in Queries(Urls, {"en"}, {Some(2)})
    /\ Fresh

Next ==
    \/ ProcessVideo
    \/ YtdlpStart
    \/ YtdlpSkip
    \/ YtdlpFinish(SomeYtdlpOutcomes)
    \/ PytubeStart
    \/ PytubeSkip
    \/ PytubeFinish(SomePytubeOutcomes(video_id[1]))
    \/ MinimalMetadata
    \/ TranscriptUnavailable
    \/ TranscriptStart
    \/ BuildProxy(SomeCtorOutcomes)
    \/ Direct(SomeFetchOutcomes)
    \/ FallbackList(SomeListOutcomes)
    \/ FallbackFetch(SomeFetchOutcomes)
    \/ TranscriptReturn
    \/ CommentsCall
    \/ CommentsSkip
    \/ Merge

Spec == Init /\ [][Next]_vars

\* _extract_video_metadata, from its call (line 241) to its return
InitMetadata ==
    /\ pc = "metadata"
    /\ env \in SomeEnvs
    /\ YT_DLP_AVAILABLE \in BOOLEAN
    /\ PYTUBE_AVAILABLE \in BOOLEAN
    /\ TRANSCRIPT_API_AVAILABLE = TRUE
    /\ youtube_api_key = None
    /\ query \in Queries(WellFormedUrls, {"en"}, {Some(2)})
    /\ video_id = extract_video_id(query.url)
    /\ video_info = None
    /\ extraction_attempts = <<>>
    /\ provider_proxy = None
    /\ proxy_config = None
    /\ ctor_raises = None
    /\ transcript_list = None
    /\ selected = <<None, None>>
    /\ fetched = None
    /\ formatted = None
    /\ result = <<None, None>>
    /\ comments = None
    /\ returned = None
    /\ raised = None
    /\ calls = <<>>

NextMetadata ==
    \/ YtdlpStart
    \/ YtdlpSkip
    \/ YtdlpFinish(YtdlpOutcomes)
    \/ PytubeStart
    \/ PytubeSkip
    \/ PytubeFinish(PytubeOutcomes(video_id[1]))
    \/ MinimalMetadata

SpecMetadata == InitMetadata /\ [][NextMetadata]_vars

\* _extract_transcript, from its call (line 242) to its return, in an
\* invocation whose metadata is the minimal record
AtTranscript ==
    /\ YT_DLP_AVAILABLE = FALSE
    /\ PYTUBE_AVAILABLE = FALSE
    /\ youtube_api_key = None
    /\ video_id = extract_video_id(query.url)
    /\ video_info = Some(_build_minimal_metadata(video_id[1], query.url))
    /\ extraction_attempts = <<>>
    /\ provider_proxy = None
    /\ proxy_config = None
    /\ ctor_raises = None
    /\ transcript_list = None
    /\ selected = <<None, None>>
    /\ fetched = None
    /\ formatted = None
    /\ result = <<None, None>>
    /\ comments = None
    /\ returned = None
    /\ raised = None
    /\ calls = <<>>

InitTranscript ==
    /\ pc = "transcript"
    /\ env \in {NoEnv}
    /\ TRANSCRIPT_API_AVAILABLE \in BOOLEAN
    /\ query \in Queries({"https://youtu.be/abc123def45"}, PreferredLanguages, MaxLengths)
    /\ AtTranscript

NextTranscript ==
    \/ TranscriptUnavailable
    \/ TranscriptStart
    \/ BuildProxy({[i \in 1..3 |-> FALSE]})
    \/ Direct(FetchOutcomes)
    \/ FallbackList(ListOutcomes)
    \/ FallbackFetch(FetchOutcomes)
    \/ TranscriptReturn

SpecTranscript == InitTranscript /\ [][NextTranscript]_vars

\* _build_proxy_config, as _extract calls it (line 460), in every environment
InitProxy ==
    /\ pc = "t_proxy"
    /\ env \in Envs
    /\ TRANSCRIPT_API_AVAILABLE = TRUE
    /\ query \in Queries({"https://youtu.be/abc123def45"}, {"en"}, {Some(2)})
    /\ query.include_comments = FALSE
    /\ AtTranscript

NextProxy ==
    \/ BuildProxy(CtorOutcomes)

SpecProxy == InitProxy /\ [][NextProxy]_vars

----------------------------------------------------------------------------
(* Properties *)

WellFormed == extract_video_id(query.url) # Raise

\* C1: when the identifier cannot be extracted, process_video ends with the
\* validation error and starts no extraction: no provider call, no transcript
\* call, no comment extraction, no metadata, no result.
C1_MalformedUrlFailsBeforeExtraction ==
    ~WellFormed =>
        /\ pc \in {"idle", "raised"}
        /\ pc = "raised" => raised = Some("ValueError")
        /\ calls = <<>>
        /\ video_info = None
        /\ returned = None

C1_Witness ==
    /\ ~WellFormed
    /\ pc = "raised"
    /\ raised = Some("ValueError")

\* how far an invocation has come
Rank(p) ==
    CASE p = "idle" -> 0
      [] p = "metadata" -> 1
      [] p = "ytdlp" -> 2
      [] p = "metadata_pytube" -> 3
      [] p = "pytube" -> 4
      [] p = "metadata_minimal" -> 5
      [] p = "transcript" -> 6
      [] p = "t_proxy" -> 7
      [] p = "t_direct" -> 8
      [] p = "t_list" -> 9
      [] p = "t_fetch" -> 10
      [] p = "t_return" -> 11
      [] p = "comments" -> 12
      [] p = "merge" -> 13
      [] p = "done" -> 14
      [] p = "raised" -> 14

\* C2: for a well-formed identifier, whatever the providers do, process_video
\* never surfaces an error, every step brings it nearer to its return, it is
\* never stuck before its return, and it returns (metadata, transcript or None,
\* comments or None).
C2_WellFormedAlwaysReturns ==
    /\ [](WellFormed =>
            /\ raised = None
            /\ pc # "raised"
            /\ pc # "done" => ENABLED Next
            /\ pc = "done" => /\ returned # None
                              /\ returned[1][1] # None
                              /\ returned[1][2] = result[1]
                              /\ returned[1][3] = comments)
    /\ [][Rank(pc') > Rank(pc)]_vars

C2_Witness ==
    /\ WellFormed
    /\ pc = "done"
    /\ YT_DLP_AVAILABLE
    /\ PYTUBE_AVAILABLE
    /\ extraction_attempts = <<"yt-dlp", "pytube">>
    /\ calls = <<"yt_dlp.extract_info", "pytube.YouTube", "ytt_api.fetch",
                 "ytt_api.list", "transcript.fetch", "_extract_comments">>
    /\ returned[1][2] = None

\* C3: when every metadata provider is absent or failed, the metadata is the
\* minimal record.
C3_MinimalMetadataWhenAllProvidersFail ==
    (/\ pc = "transcript"
     /\ ~YT_DLP_AVAILABLE \/ "yt-dlp" \in {extraction_attempts[i] :
                                              i \in DOMAIN extraction_attempts}
     /\ ~PYTUBE_AVAILABLE \/ "pytube" \in {extraction_attempts[i] :
                                              i \in DOMAIN extraction_attempts})
    => video_info =
         Some([title         |-> Some("Video " \o video_id[1]),
               description   |-> Some("Description not available"),
               duration      |-> Some(0),
               view_count    |-> None,
               like_count    |-> None,
               channel       |-> Some("Unknown Channel"),
               channel_id    |-> None,
               upload_date   |-> None,
               url           |-> Some(query.url),
               video_id      |-> video_id,
               thumbnail_url |-> Some("https://img.youtube.com/vi/" \o video_id[1]
                                      \o "/maxresdefault.jpg"),
               categories    |-> Some(<<>>),
               tags          |-> Some(<<>>)])

C3_Witness ==
    /\ pc = "transcript"
    /\ YT_DLP_AVAILABLE
    /\ ~PYTUBE_AVAILABLE
    /\ extraction_attempts = <<"yt-dlp">>
    /\ video_info[1].title = Some("Video abc123def45")

IsPreferredManual(t) == t.language_code = query.language /\ ~t.is_generated

IsPreferredAuto(t) == t.language_code = query.language /\ t.is_generated

\* the first element of list that satisfies P
FirstWhere(list, P(_)) ==
    list[CHOOSE i \in DOMAIN list : P(list[i]) /\ \A j \in 1..(i - 1) : ~P(list[j])]

IsManual(t) == ~t.is_generated

IsAuto(t) == t.is_generated

\* C4: phase-2 selection takes a manual track in the preferred language, else
\* an auto-generated track in the preferred language, else the first manual
\* track, else the first auto-generated track, else (None, None).
C4_SelectionPriority ==
    transcript_list # None =>
        LET list == transcript_list[1]
            Has(P(_)) == \E i \in DOMAIN list : P(list[i])
        IN  IF Has(IsPreferredManual)
            THEN selected[1] # None /\ IsPreferredManual(selected[1][1])
            ELSE IF Has(IsPreferredAuto)
            THEN selected[1] # None /\ IsPreferredAuto(selected[1][1])
            ELSE IF Has(IsManual)
            THEN selected[1] = Some(FirstWhere(list, IsManual))
            ELSE IF Has(IsAuto)
            THEN selected[1] = Some(FirstWhere(list, IsAuto))
            ELSE list = <<>> /\ selected = <<None, None>>

C4_Witness ==
    /\ query.language = "en"
    /\ transcript_list = Some(<<Track("en", TRUE), Track("en", FALSE), Track("fr", FALSE)>>)
    /\ selected[1] = Some(Track("en", FALSE))

\* C5: in either phase, a formatted text longer than a positive max_length is
\* returned as its first max_length characters followed by the marker, of
\* length max_length + 26.
C5_TruncationAppendsMarker ==
    (/\ formatted # None
     /\ query.max_transcript_length # None
     /\ query.max_transcript_length[1] > 0
     /\ Len(formatted[1]) > query.max_transcript_length[1])
    => LET n == query.max_transcript_length[1]
           text == result[1][1]
       IN  /\ result[1] # None
           /\ Len(text) = n + Len("\n[Transcript truncated...]")
           /\ Len("\n[Transcript truncated...]") = 26
           /\ SubSeq(text, 1, n) = SubSeq(formatted[1], 1, n)
           /\ SubSeq(text, n + 1, Len(text)) = "\n[Transcript truncated...]"

C5_Witness ==
    /\ "transcript.fetch" \in {calls[i] : i \in DOMAIN calls}
    /\ formatted = Some("bc\na")
    /\ query.max_transcript_length = Some(3)
    /\ result[1] = Some("bc\n\n[Transcript truncated...]")

\* C6 (as claimed): in either phase the returned text is the formatted text
\* whenever its length is at most max_length or max_length is zero, negative
\* or unset.
C6_NoTruncationClaim ==
    (/\ formatted # None
     /\ \/ query.max_transcript_length = None
        \/ query.max_transcript_length[1] <= 0
        \/ Len(formatted[1]) <= query.max_transcript_length[1])
    => result[1] = formatted

\* C7: a returned text comes with the language of the track that was fetched;
\* that language differs from the preferred one only when phase 2 found no
\* track in the preferred language, and phase 1 reports the preferred language.
C7_ReturnedLanguageIsFetchedTrack ==
    result[1] # None =>
        /\ result[2] = fetched
        /\ result[2] # Some(query.language) =>
              /\ "transcript.fetch" \in {calls[i] : i \in DOMAIN calls}
              /\ transcript_list # None
              /\ \A i \in DOMAIN transcript_list[1] :
                    transcript_list[1][i].language_code # query.language
        /\ "ytt_api.list" \notin {calls[i] : i \in DOMAIN calls} =>
              result[2] = Some(query.language)

C7_Witness ==
    /\ result[1] # None
    /\ query.language = "en"
    /\ transcript_list = Some(<<Track("de", TRUE), Track("fr", FALSE)>>)
    /\ result[2] = Some("fr")
    /\ fetched = Some("fr")

\* the tiers of the proxy configuration, read off the environment
Tier1Configured ==
    /\ env["USE_PROXY"] \in {Some("true"), Some("True"), Some("TRUE")}
    /\ \/ Truthy(env["PROXY_USERNAME"]) /\ Truthy(env["PROXY_PASSWORD"])
       \/ env["PROXY_URL"] # Some("")

Tier2Configured ==
    Truthy(env["YTA_WEBSHARE_USERNAME"]) /\ Truthy(env["YTA_WEBSHARE_PASSWORD"])

Tier3Configured ==
    \E n \in {"YTA_HTTP_PROXY", "HTTP_PROXY", "YTA_HTTPS_PROXY", "HTTPS_PROXY"} :
        Truthy(env[n])

IsTier1(config) ==
    /\ config # None
    /\ config[1].class = "GenericProxyConfig"
    /\ config[1].http_url = _get_decodo_proxy_url(env)
    /\ config[1].https_url = config[1].http_url

IsTier2(config) ==
    /\ config # None
    /\ config[1].class = "WebshareProxyConfig"
    /\ config[1].proxy_username = env["YTA_WEBSHARE_USERNAME"][1]
    /\ config[1].proxy_password = env["YTA_WEBSHARE_PASSWORD"][1]

IsTier3(config) ==
    /\ config # None
    /\ config[1].class = "GenericProxyConfig"
    /\ config[1].http_url =
          (IF Truthy(env["YTA_HTTP_PROXY"]) THEN env["YTA_HTTP_PROXY"]
           ELSE env["HTTP_PROXY"])
    /\ config[1].https_url =
          (IF Truthy(env["YTA_HTTPS_PROXY"]) THEN env["YTA_HTTPS_PROXY"]
           ELSE env["HTTPS_PROXY"])

\* C8: the resolved proxy is the variant of the first tier, residential then
\* credentialed then generic, that is configured and whose constructor does not
\* raise; it is None when there is no such tier.
C8_ProxyPriority ==
    ctor_raises # None =>
        LET Usable(i, configured) == configured /\ ~ctor_raises[1][i]
        IN  IF Usable(1, Tier1Configured) THEN IsTier1(proxy_config)
            ELSE IF Usable(2, Tier2Configured) THEN IsTier2(proxy_config)
            ELSE IF Usable(3, Tier3Configured) THEN IsTier3(proxy_config)
            ELSE proxy_config = None

C8_Witness ==
    /\ ctor_raises = Some([i \in 1..3 |-> FALSE])
    /\ env["USE_PROXY"] = Some("True")
    /\ env["PROXY_USERNAME"] = Some("user")
    /\ env["PROXY_PASSWORD"] = Some("pw")
    /\ env["PROXY_URL"] = Some("https://px.example:7000")
    /\ Tier2Configured
    /\ Tier3Configured
    /\ proxy_config = Some(GenericProxyConfig(Some("http://user:pw@px.example:7000"),
                                              Some("http://user:pw@px.example:7000")))

\* C9: comment extraction runs only when include_comments is true; without
\* an API credential, or when include_comments is false, the comments of the
\* result are None.
C9_CommentsOnlyOnRequest ==
    /\ "_extract_comments" \in {calls[i] : i \in DOMAIN calls} => query.include_comments
    /\ pc = "done" =>
          /\ query.include_comments /\ ~Truthy(youtube_api_key) => returned[1][3] = None
          /\ ~query.include_comments => returned[1][3] = None

C9_Witness ==
    /\ pc = "done"
    /\ query.include_comments
    /\ youtube_api_key = None
    /\ "_extract_comments" \in {calls[i] : i \in DOMAIN calls}
    /\ returned[1][3] = None

\* C10 (as claimed): in every metadata record that extract_metadata returns,
\* title, description, channel, thumbnail url, url and identifier are present
\* and not None.
C10_RequiredFieldsNotNullClaim ==
    pc = "transcript" =>
        \A f \in {"title", "description", "channel", "thumbnail_url", "url", "video_id"} :
            /\ f \in DOMAIN video_info[1]
            /\ video_info[1][f] # None

\* a metadata provider call has been handed to the executor and has not ended
ProviderCallPending == pc \in {"ytdlp", "pytube"}

\* _extract_transcript has been entered (line 242)
TranscriptEntered ==
    pc \in {"t_proxy", "t_direct", "t_list", "t_fetch", "t_return", "comments",
            "merge", "done"}

\* C11 (as claimed): a metadata provider call that is slow or blocked does not
\* delay the start of transcript extraction; while the provider call is
\* pending, transcript extraction has started or is able to start.
C11_PendingMetadataDoesNotDelayTranscriptClaim ==
    ProviderCallPending =>
        \/ TranscriptEntered
        \/ ENABLED (TranscriptStart \/ TranscriptUnavailable)

\* what the code does instead (lines 241-242, sequential awaits): transcript
\* extraction is entered, and any transcript call made, only once the
\* metadata record exists
SequentialAwaits ==
    /\ TranscriptEntered => video_info # None
    /\ video_info = None =>
          /\ result = <<None, None>>
          /\ \A i \in DOMAIN calls :
                calls[i] \notin {"ytt_api.fetch", "ytt_api.list", "transcript.fetch",
                                 "_extract_comments"}

\* the proxy urls a metadata provider call was given
ProviderUrls(p) ==
    IF p = None THEN {}
    ELSE IF p[1].provider = "yt-dlp" THEN {p[1].proxy}
    ELSE {p[1].proxies[k] : k \in DOMAIN p[1].proxies}

\* the priority tier of a resolved configuration: 0 is no proxy
ResolvedTier(config) ==
    IF config = None THEN 0
    ELSE IF IsTier1(config) THEN 1
    ELSE IF IsTier2(config) THEN 2
    ELSE 3

\* the priority tier the urls of a provider call come from
ProviderTier(p) ==
    IF p = None THEN 0
    ELSE IF Some(CHOOSE u \in ProviderUrls(p) : TRUE) = _get_decodo_proxy_url(env) THEN 1
    ELSE IF ProviderUrls(p) \subseteq
               {env[n][1] : n \in {m \in {"YTA_HTTP_PROXY", "HTTP_PROXY",
                                          "YTA_HTTPS_PROXY", "HTTPS_PROXY"} :
                                      env[m] # None}}
    THEN 3
    ELSE 2

\* the configuration the transcript client of the same invocation receives
\* when no constructor raises
ResolvedProxy == _build_proxy_config(env, TRUE, [i \in 1..3 |-> FALSE])

\* C14 (as claimed): a metadata provider call uses a proxy exactly when the
\* resolver returns a configuration, and the proxy is of the tier that the
\* transcript client receives.
C14_ProviderUsesResolvedProxyClaim ==
    ProviderCallPending =>
        /\ provider_proxy # None <=> ResolvedProxy # None
        /\ ProviderTier(provider_proxy) = ResolvedTier(ResolvedProxy)

\* what the code does: the providers read the residential tier and the generic
\* urls themselves and never see the credentialed rotating tier
ProviderProxySkipsTier2 ==
    ProviderCallPending =>
        /\ ProviderTier(provider_proxy) \in {0, 1, 3}
        /\ ResolvedTier(ResolvedProxy) # 2 =>
              ProviderTier(provider_proxy) = ResolvedTier(ResolvedProxy)
        /\ ResolvedTier(ResolvedProxy) = 2 =>
              ProviderTier(provider_proxy) = (IF Tier3Configured THEN 3 ELSE 0)

\* the number of times a call appears in the call log
Count(name) == Cardinality({i \in DOMAIN calls : calls[i] = name})

Called(name) == Count(name) > 0

\* the provider's failure was recorded (lines 285, 295)
Attempted(provider) ==
    \E i \in DOMAIN extraction_attempts : extraction_attempts[i] = provider

\* C12: extract_metadata tries yt-dlp then pytube, each at most once; an
\* unavailable provider is not called; pytube is called only after yt-dlp was
\* unavailable or raised; a success returns at once, with no later provider
\* called; no provider exception leaves extract_metadata.
C12_ProvidersInOrderOnce ==
    /\ [](/\ Count("yt_dlp.extract_info") <= 1
          /\ Count("pytube.YouTube") <= 1
          /\ Called("yt_dlp.extract_info") => YT_DLP_AVAILABLE /\ calls[1] = "yt_dlp.extract_info"
          /\ Called("pytube.YouTube") =>
                /\ PYTUBE_AVAILABLE
                /\ ~YT_DLP_AVAILABLE \/ Attempted("yt-dlp")
          /\ Attempted("yt-dlp") => Called("yt_dlp.extract_info")
          /\ Attempted("pytube") => Called("pytube.YouTube")
          /\ raised = None
          /\ pc # "raised"
          /\ pc # "transcript" => ENABLED NextMetadata)
    /\ [][/\ pc \in {"ytdlp", "pytube"} /\ video_info' # None =>
                /\ pc' = "transcript"
                /\ calls' = calls
                /\ extraction_attempts' = extraction_attempts
          /\ pc \in {"ytdlp", "pytube"} /\ video_info' = None =>
                /\ pc' = (IF pc = "ytdlp" THEN "metadata_pytube" ELSE "metadata_minimal")
                /\ Len(extraction_attempts') = Len(extraction_attempts) + 1
                /\ raised' = None]_vars

C12_Witness ==
    /\ pc = "transcript"
    /\ calls = <<"yt_dlp.extract_info", "pytube.YouTube">>
    /\ extraction_attempts = <<"yt-dlp">>
    /\ video_info # None
    /\ video_info[1].title = Some("Unknown Title")
    /\ "like_count" \notin DOMAIN video_info[1]

\* C13: in extract_transcript the direct fetch is tried first and at most
\* once; enumerate-and-select is tried exactly when the direct fetch failed,
\* and at most once; a failure of the direct fetch is not reported; when the
\* enumeration fails, lists no track, or the fetch of the selected track fails,
\* the result is (None, None) and nothing more is tried.
C13_PhasesInOrderOnce ==
    /\ [](/\ Count("ytt_api.fetch") <= 1
          /\ Count("ytt_api.list") <= 1
          /\ Count("transcript.fetch") <= 1
          /\ calls # <<>> => calls[1] = "ytt_api.fetch"
          /\ Called("ytt_api.list") => calls[2] = "ytt_api.list"
          /\ Called("transcript.fetch") =>
                /\ calls[3] = "transcript.fetch"
                /\ selected[1] # None
          /\ raised = None
          /\ pc # "raised"
          /\ pc # "comments" => ENABLED NextTranscript
          /\ pc = "t_list" => /\ ~Called("ytt_api.list")
                              /\ result = <<None, None>>
          /\ pc \in {"t_return", "comments"} /\ Called("ytt_api.list") =>
                /\ (\/ transcript_list = None
                    \/ transcript_list = Some(<<>>)
                    \/ Called("transcript.fetch") /\ fetched = None)
                      => result = <<None, None>>
                /\ transcript_list = None \/ transcript_list = Some(<<>>)
                      => ~Called("transcript.fetch"))
    /\ [][/\ pc = "t_direct" =>
                /\ calls' = Append(calls, "ytt_api.fetch")
                /\ \/ /\ pc' = "t_return"
                      /\ result'[1] # None
                      /\ result'[2] = Some(query.language)
                   \/ /\ pc' = "t_list"
                      /\ result' = result
                      /\ raised' = None
          /\ pc' = "t_list" => pc = "t_direct"
          /\ pc = "t_list" => calls' = Append(calls, "ytt_api.list")
          /\ Called("ytt_api.list") => pc' \in {"t_fetch", "t_return", "comments"}]_vars

C13_Witness ==
    /\ pc = "t_return"
    /\ calls = <<"ytt_api.fetch", "ytt_api.list", "transcript.fetch">>
    /\ transcript_list # None
    /\ Len(transcript_list[1]) = 2
    /\ fetched = None
    /\ result = <<None, None>>

====
